---- MODULE Spec2Model ----
(***************************************************************************)
(* RegionalEdgeSimPy: the server resource ledger (entities/server.py), the *)
(* rule-based tier scheduler (scheduler/rule_scheduler.py), the mobility   *)
(* manager (mobility/manager.py, mobility/mobile_entity.py) and the        *)
(* simulator's round loop (core/simulator.py).                             *)
(*                                                                         *)
(* Two specifications share the variables:                                 *)
(*   Spec        Simulator(RuleBasedScheduler()).run(), one action per     *)
(*               step of a round (the scheduler and the apply loop one     *)
(*               iteration at a time);                                     *)
(*   SpecLedger  a caller invoking Server.allocate and                     *)
(*               Server.release_completed_tasks on one server with         *)
(*               arbitrary arguments.                                      *)
(*                                                                         *)
(* Quantities of config/config.py are scaled down (capacities of a few     *)
(* units, latencies of a few time units) so that exhaustion, spill-over to *)
(* the next tier and release all happen within a few rounds. Monetary      *)
(* rates are kept in millionths (0.00005 is 50).                           *)
(***************************************************************************)
EXTENDS Integers, Sequences, FiniteSets, TLC

(***************************************************************************)
(* config/config.py                                                        *)
(***************************************************************************)
NumEdge == 2
NumRegional == 1
NumCloud == 1

EdgeCpu == 1
EdgeMemory == 1
EdgeStorage == 2
EdgeBandwidth == 4
EdgeLatency == 2
EdgeCost == 50
EdgeTxCost == 20

RegionalCpu == 1
RegionalMemory == 2
RegionalStorage == 2
RegionalBandwidth == 8
RegionalLatency == 3
RegionalCost == 100
RegionalTxCost == 5

CloudCpu == 2
CloudMemory == 1
CloudStorage == 3
CloudBandwidth == 10
CloudLatency == 4
CloudCost == 200
CloudTxCost == 5

StartDevices == 1
MaxDevices == 3
Increment == 1
DataPerDeviceKb == 1

HandoverLatencyMs == 2
\* handover_threshold_db = 3: new_sig - old_sig >= 3 with
\* sig = -20*log10(max(d,1)) = -10*log10(max(d^2,1)) is
\* max(d_old^2,1) / max(d_new^2,1) >= 10^0.3 = 1.99526...
ThresholdNum == 199527
ThresholdDen == 100000

ServerIds == 1 .. (NumEdge + NumRegional + NumCloud)
None == 0

\* _initialize_servers: SERVER_CONFIG order Edge, Regional, Cloud; name = tier_i
Tier(s) ==
    IF s <= NumEdge THEN "Edge"
    ELSE IF s <= NumEdge + NumRegional THEN "Regional"
    ELSE "Cloud"

cpu_capacity(s) ==
    IF Tier(s) = "Edge" THEN EdgeCpu
    ELSE IF Tier(s) = "Regional" THEN RegionalCpu ELSE CloudCpu

storage_capacity(s) ==
    IF Tier(s) = "Edge" THEN EdgeStorage
    ELSE IF Tier(s) = "Regional" THEN RegionalStorage ELSE CloudStorage

memory_capacity(s) ==
    IF Tier(s) = "Edge" THEN EdgeMemory
    ELSE IF Tier(s) = "Regional" THEN RegionalMemory ELSE CloudMemory

bandwidth(s) ==
    IF Tier(s) = "Edge" THEN EdgeBandwidth
    ELSE IF Tier(s) = "Regional" THEN RegionalBandwidth ELSE CloudBandwidth

\* every tier configured with "latency": 0
latency_Zero(s) == 0

latency(s) ==
    IF Tier(s) = "Edge" THEN EdgeLatency
    ELSE IF Tier(s) = "Regional" THEN RegionalLatency ELSE CloudLatency

cost(s) ==
    IF Tier(s) = "Edge" THEN EdgeCost
    ELSE IF Tier(s) = "Regional" THEN RegionalCost ELSE CloudCost

tx_cost(s) ==
    IF Tier(s) = "Edge" THEN EdgeTxCost
    ELSE IF Tier(s) = "Regional" THEN RegionalTxCost ELSE CloudTxCost

(***************************************************************************)
(* Bounds of the ledger caller (SpecLedger): the number of successful      *)
(* allocations and the largest time it passes.                             *)
(***************************************************************************)
MaxAllocs == 2
MaxTime == 1

(***************************************************************************)
(* State                                                                   *)
(***************************************************************************)
VARIABLES
    servers,        \* Simulator.servers: per server the mutable Server fields
    current_time,   \* Simulator.current_time
    round_no,       \* the for-loop variable of Simulator.run
    pc,             \* position of run() inside the round
    tasks,          \* Simulator.tasks: this round's Task objects
    assignments,    \* the scheduler's results list: <<task index, server or None>>
    idx,            \* loop index of the scheduler's / the apply loop's for
    failed_count,   \* Simulator.run's local failed_count
    next_id,        \* stands for uuid4(): the next unused task id
    server_pos,     \* per server its (x, y)
    entities,       \* MobilityManager.entities: position and attached_server
    ho_count,       \* MobilityManager.ho_count
    ho_delay,       \* MobilityManager.ho_delay
    ho_ret,         \* what the last update_all() returned: <<count, delay>>
    reports,        \* the rows given to task_reporter.report in this round
    call,           \* the harnesses: the last call made
    waypoint,       \* SpecWaypoint: the fields of one RandomWaypoint
    passes          \* SpecPasses: the locals of each call of schedule()

simvars == <<current_time, round_no, pc, tasks, assignments, idx, failed_count,
             next_id, server_pos, entities, ho_count, ho_delay, ho_ret, reports,
             waypoint, passes>>
vars == <<servers, simvars, call>>

(***************************************************************************)
(* entities/server.py                                                      *)
(***************************************************************************)
RECURSIVE SumField(_, _, _)
\* sum of component k of the reservations of the task ids in S
SumField(running, S, k) ==
    IF S = {} THEN 0
    ELSE LET t == CHOOSE x \in S : TRUE
         IN running[t][k] + SumField(running, S \ {t}, k)

\* Server.__init__ (the mutable fields) as left by _initialize_servers
NewServer(s) ==
    [available_cpu |-> cpu_capacity(s),
     available_storage |-> storage_capacity(s),
     available_memory |-> memory_capacity(s),
     running_tasks |-> <<>>,
     total_data_transferred_kb |-> 0,
     total_cost |-> 0]

can_allocate(srv, cpu_demand, storage_demand, memory_demand) ==
    /\ srv.available_cpu >= cpu_demand
    /\ srv.available_storage >= storage_demand
    /\ srv.available_memory >= memory_demand

\* running_tasks.setdefault(task_id, (...)): an existing entry is kept
DictSet_KeepExisting(d, k, v) ==
    [x \in (DOMAIN d) \cup {k} |-> IF x \in DOMAIN d THEN d[x] ELSE v]

\* running_tasks[task_id] = (...): insert or overwrite
DictSet(d, k, v) == [x \in (DOMAIN d) \cup {k} |-> IF x = k THEN v ELSE d[x]]

\* allocate deducting each quantity as soon as it alone is found to fit
allocate_PartialDeduct(s, srv, task_id, cpu_demand, storage_demand, memory_demand, release_time) ==
    IF can_allocate(srv, cpu_demand, storage_demand, memory_demand)
    THEN [srv |->
            [available_cpu |-> srv.available_cpu - cpu_demand,
             available_storage |-> srv.available_storage - storage_demand,
             available_memory |-> srv.available_memory - memory_demand,
             running_tasks |->
                 DictSet(srv.running_tasks, task_id,
                         <<cpu_demand, storage_demand, memory_demand, release_time>>),
             total_data_transferred_kb |->
                 srv.total_data_transferred_kb + DataPerDeviceKb,
             total_cost |-> srv.total_cost + (cpu_demand * cost(s))
                                           + (DataPerDeviceKb * tx_cost(s))],
          ret |-> TRUE]
    ELSE [srv |->
            [srv EXCEPT
               !.available_cpu =
                   IF @ >= cpu_demand THEN @ - cpu_demand ELSE @],
          ret |-> FALSE]

\* Server.allocate on server s in state srv: the new state and the return value
allocate(s, srv, task_id, cpu_demand, storage_demand, memory_demand, release_time) ==
    IF can_allocate(srv, cpu_demand, storage_demand, memory_demand)
    THEN [srv |->
            [available_cpu |-> srv.available_cpu - cpu_demand,
             available_storage |-> srv.available_storage - storage_demand,
             available_memory |-> srv.available_memory - memory_demand,
             running_tasks |->
                 DictSet(srv.running_tasks, task_id,
                         <<cpu_demand, storage_demand, memory_demand, release_time>>),
             total_data_transferred_kb |->
                 srv.total_data_transferred_kb + DataPerDeviceKb,
             total_cost |-> srv.total_cost + (cpu_demand * cost(s))
                                           + (DataPerDeviceKb * tx_cost(s))],
          ret |-> TRUE]
    ELSE [srv |-> srv, ret |-> FALSE]

\* completed with a release time up to one time unit ahead counted as passed
Completed_Early(srv, now) ==
    {tid \in DOMAIN srv.running_tasks : now + 1 >= srv.running_tasks[tid][4]}

\* completed without the test on rt: every reservation
Completed_All(srv, now) == DOMAIN srv.running_tasks

\* completed with current_time > rt in place of current_time >= rt
Completed_Strict(srv, now) ==
    {tid \in DOMAIN srv.running_tasks : now > srv.running_tasks[tid][4]}

\* the list `completed` of release_completed_tasks
Completed(srv, now) ==
    {tid \in DOMAIN srv.running_tasks : now >= srv.running_tasks[tid][4]}

\* release_completed_tasks reading running_tasks[tid] without popping it
release_completed_tasks_KeepsEntries(srv, now) ==
    LET completed == Completed(srv, now)
    IN [srv EXCEPT
          !.available_cpu = @ + SumField(srv.running_tasks, completed, 1),
          !.available_storage = @ + SumField(srv.running_tasks, completed, 2),
          !.available_memory = @ + SumField(srv.running_tasks, completed, 3)]

release_completed_tasks(srv, now) ==
    LET completed == Completed(srv, now)
    IN [srv EXCEPT
          !.available_cpu = @ + SumField(srv.running_tasks, completed, 1),
          !.available_storage = @ + SumField(srv.running_tasks, completed, 2),
          !.available_memory = @ + SumField(srv.running_tasks, completed, 3),
          !.running_tasks =
              [tid \in (DOMAIN srv.running_tasks) \ completed |->
                   srv.running_tasks[tid]]]


(***************************************************************************)
(* mobility/mobile_entity.py, mobility/manager.py                          *)
(***************************************************************************)
\* SERVER_CONFIG[tier]["positions"][index], on the model's grid
ConfigPosition(s) ==
    IF s = 1 THEN <<0, 0>>
    ELSE IF s = 2 THEN <<2, 0>>
    ELSE IF s = 3 THEN <<0, 3>>
    ELSE <<2, 3>>

\* the points of MOBILITY_CONFIG["area"] a RandomWaypoint may be at
Points == {<<0, 0>>, <<2, 0>>, <<0, 3>>}

EntityIds == 0 .. (MaxDevices - 1)

\* max(dist, 1) squared, dist = math.hypot(dx, dy)
ClampedDist2(p, q) ==
    LET d2 == (p[1] - q[1]) * (p[1] - q[1]) + (p[2] - q[2]) * (p[2] - q[2])
    IN IF d2 < 1 THEN 1 ELSE d2

\* signal_strength(a) > signal_strength(b) for an entity at p
SignalGreater(p, spos, a, b) == ClampedDist2(p, spos[a]) < ClampedDist2(p, spos[b])

\* the threshold test with handover_threshold_db = 0: any signal at least as
\* strong as the attached server's passes
DeltaMeetsThreshold_AnyGain(p, spos, new, old) ==
    ClampedDist2(p, spos[old]) >= ClampedDist2(p, spos[new])

\* signal_strength(new) - signal_strength(old) >= handover_threshold_db
DeltaMeetsThreshold(p, spos, new, old) ==
    ClampedDist2(p, spos[old]) * ThresholdDen
        >= ThresholdNum * ClampedDist2(p, spos[new])

\* max(servers, key=self.signal_strength): the first server of maximal signal
BestServer(p, spos) ==
    CHOOSE b \in ServerIds :
        /\ \A o \in ServerIds : ~SignalGreater(p, spos, o, b)
        /\ \A o \in ServerIds :
              (o < b) => SignalGreater(p, spos, b, o)

\* MobileEntity.pick_best_bs for an entity at p attached to `attached`
pick_best_bs(p, spos, attached) ==
    LET best_server == BestServer(p, spos)
    IN IF attached = None \/ DeltaMeetsThreshold(p, spos, best_server, attached)
       THEN best_server
       ELSE attached

\* the loop body without "elif new_bs != ent.attached_server" and with a
\* threshold of 0: a handover is counted whenever the picked server is at
\* least as strong as the attached one
UpdateEntity_NoHysteresis(p, spos, attached) ==
    LET new_bs == pick_best_bs(p, spos, attached)
    IN IF attached = None
       THEN [attached_server |-> new_bs, handover |-> FALSE]
       ELSE IF ClampedDist2(p, spos[attached]) >= ClampedDist2(p, spos[new_bs])
       THEN [attached_server |-> new_bs, handover |-> TRUE]
       ELSE [attached_server |-> attached, handover |-> FALSE]

\* the loop body charging the first attachment like a handover
UpdateEntity_CountsFirstAttach(p, spos, attached) ==
    LET new_bs == pick_best_bs(p, spos, attached)
    IN IF attached = None
       THEN [attached_server |-> new_bs, handover |-> TRUE]
       ELSE IF new_bs # attached /\ DeltaMeetsThreshold(p, spos, new_bs, attached)
       THEN [attached_server |-> new_bs, handover |-> TRUE]
       ELSE [attached_server |-> attached, handover |-> FALSE]

\* the body of update_all's loop over entities, for one entity now at p:
\* the new attached_server and whether a handover was counted
UpdateEntity(p, spos, attached) ==
    LET new_bs == pick_best_bs(p, spos, attached)
    IN IF attached = None
       THEN [attached_server |-> new_bs, handover |-> FALSE]
       ELSE IF new_bs # attached /\ DeltaMeetsThreshold(p, spos, new_bs, attached)
       THEN [attached_server |-> new_bs, handover |-> TRUE]
       ELSE [attached_server |-> attached, handover |-> FALSE]

(***************************************************************************)
(* mobility/random_waypoint.py. Lengths are in a unit in which the points  *)
(* below have integer coordinates and distances (a 3-4-5 triangle), time   *)
(* in ticks of dt, and speeds are such that every velocity component       *)
(* speed * dx / dist is an integer.                                        *)
(***************************************************************************)
\* dt = dt_ms / 1000.0 with dt_ms = MOBILITY_CONFIG["time_step_ms"]
Dt == 1
\* pause_range: random.uniform(*pause_range) is one of 0 .. MaxPause
MaxPause == 2
PauseTimes == 0 .. MaxPause
\* speed_range: random.uniform(*speed_range) is one of these
Speeds == {5, 10}
\* _random_point(): the points of the area that may be drawn
WaypointPoints == {<<0, 0>>, <<20, 0>>, <<0, 15>>}

\* MOBILITY_CONFIG["area"]: the rectangle _random_point draws from
Area == [xmin |-> 0, xmax |-> 20, ymin |-> 0, ymax |-> 15]

\* the coordinate up to which a moving waypoint is followed
MaxCoord == 40

Abs(x) == IF x < 0 THEN -x ELSE x

RECURSIVE ISqrtBetween(_, _, _)
\* the largest d in lo .. hi with d*d <= n
ISqrtBetween(n, lo, hi) ==
    IF lo >= hi THEN lo
    ELSE LET mid == (lo + hi + 1) \div 2
         IN IF mid * mid <= n THEN ISqrtBetween(n, mid, hi)
            ELSE ISqrtBetween(n, lo, mid - 1)

\* math.hypot(dx, dy), exact when dx*dx + dy*dy is a square
Hypot(dx, dy) == ISqrtBetween((dx * dx) + (dy * dy), 0, Abs(dx) + Abs(dy))

\* math.hypot(dx, dy) without "or 1.0"
DistOrOne_NoDefault(dx, dy) == Hypot(dx, dy)

\* math.hypot(dx, dy) or 1.0
DistOrOne(dx, dy) == IF Hypot(dx, dy) = 0 THEN 1 ELSE Hypot(dx, dy)

\* the test with an epsilon of 8 length units
Arrived_Near(pos, target) ==
    ((pos[1] - target[1]) * (pos[1] - target[1]))
        + ((pos[2] - target[2]) * (pos[2] - target[2])) < 64

\* math.hypot(pos - target) < 1e-3: the squared distance is below 1e-6
Arrived(pos, target) ==
    (((pos[1] - target[1]) * (pos[1] - target[1]))
        + ((pos[2] - target[2]) * (pos[2] - target[2]))) * 1000000 < 1

\* RandomWaypoint.__init__ with the values its random draws gave
NewWaypoint(pos, target, pause_time) ==
    [state |-> "pause", pos |-> pos, target |-> target,
     pause_time |-> pause_time, speed |-> 0, vel_x |-> 0, vel_y |-> 0]

NoWaypoint == NewWaypoint(<<0, 0>>, <<0, 0>>, 0)

\* RandomWaypoint.next_position(dt_ms) on the fields wp; point, speed and
\* pause are what _random_point() and the two random.uniform would return if
\* called. A division by zero leaves the state "ZeroDivisionError".
next_position(wp, point, speed, pause) ==
    IF wp.state = "pause"
    THEN LET pause_time == wp.pause_time - Dt
         IN IF pause_time <= 0
            THEN LET dx == point[1] - wp.pos[1]
                     dy == point[2] - wp.pos[2]
                     dist == DistOrOne(dx, dy)
                 IN IF dist = 0
                    THEN [wp EXCEPT !.pause_time = pause_time, !.target = point,
                                    !.speed = speed, !.state = "ZeroDivisionError"]
                    ELSE [wp EXCEPT !.pause_time = pause_time, !.target = point,
                                    !.speed = speed, !.state = "move",
                                    !.vel_x = (speed * dx) \div dist,
                                    !.vel_y = (speed * dy) \div dist]
            ELSE [wp EXCEPT !.pause_time = pause_time]
    ELSE LET pos == <<wp.pos[1] + (wp.vel_x * Dt), wp.pos[2] + (wp.vel_y * Dt)>>
         IN IF Arrived(pos, wp.target)
            THEN [wp EXCEPT !.pos = pos, !.state = "pause", !.pause_time = pause]
            ELSE [wp EXCEPT !.pos = pos]

(***************************************************************************)
(* entities/task.py, workload/generator.py                                 *)
(***************************************************************************)
NoTime == -1

\* Task.__init__ with the demands WorkloadGenerator.generate_tasks gives it
\* (the random priority, used only as a column of the metrics row, is left
\* out), tagged with entity_id by Simulator.run
NewTask(id, entity_id) ==
    [id |-> id,
     cpu_demand |-> DataPerDeviceKb,
     storage_demand |-> DataPerDeviceKb,
     memory_demand |-> DataPerDeviceKb,
     data_size_kb |-> DataPerDeviceKb,
     server_assigned |-> None,
     assigned_server |-> None,
     status |-> "created",
     execution_start_time |-> NoTime,
     execution_end_time |-> NoTime,
     entity_id |-> entity_id]

\* Task.complete recording start_time as the end of the window too
complete_EndIsStart(task, start_time, end_time) ==
    [task EXCEPT !.execution_start_time = start_time,
                 !.execution_end_time = start_time,
                 !.status = "completed"]

\* Task.complete
complete(task, start_time, end_time) ==
    [task EXCEPT !.execution_start_time = start_time,
                 !.execution_end_time = end_time,
                 !.status = "completed"]

\* current_devices of generate_tasks
CurrentDevices(r) ==
    LET current_devices == StartDevices + ((r - 1) * Increment)
    IN IF current_devices > MaxDevices THEN MaxDevices ELSE current_devices

\* generate_tasks with the tagging loop counting from 1 (enumerate(tasks, 1))
generate_tasks_OneBased(r, first_id) ==
    [k \in 1 .. CurrentDevices(r) |-> NewTask(first_id + k - 1, k)]

\* generate_tasks(round_no) followed by the entity_id tagging loop
generate_tasks(r, first_id) ==
    [k \in 1 .. CurrentDevices(r) |-> NewTask(first_id + k - 1, k - 1)]

\* total_rounds of Simulator.run
TotalRounds == ((MaxDevices - StartDevices) \div Increment) + 1

(***************************************************************************)
(* scheduler/rule_scheduler.py                                             *)
(***************************************************************************)
\* the key of min(): available_cpu + available_memory + available_storage
AvailSum(srv) == srv.available_cpu + srv.available_memory + srv.available_storage

\* eligible_edge / eligible_regional / eligible_cloud
Eligible(srvs, tier, task) ==
    {s \in ServerIds :
        /\ Tier(s) = tier
        /\ can_allocate(srvs[s], task.cpu_demand, task.storage_demand,
                        task.memory_demand)}

\* max(eligible, key=...) in place of min
Selected_Max(srvs, eligible) ==
    CHOOSE s \in eligible :
        /\ \A o \in eligible : AvailSum(srvs[s]) >= AvailSum(srvs[o])
        /\ \A o \in eligible : (o < s) => AvailSum(srvs[o]) < AvailSum(srvs[s])

\* min(eligible, key=...): the first server of the list with the least key
Selected(srvs, eligible) ==
    CHOOSE s \in eligible :
        /\ \A o \in eligible : AvailSum(srvs[s]) <= AvailSum(srvs[o])
        /\ \A o \in eligible : (o < s) => AvailSum(srvs[o]) > AvailSum(srvs[s])

\* the tiers tried in the order Regional, Edge, Cloud
ChosenTier_RegionalFirst(srvs, task) ==
    IF Eligible(srvs, "Regional", task) # {} THEN "Regional"
    ELSE IF Eligible(srvs, "Edge", task) # {} THEN "Edge"
    ELSE IF Eligible(srvs, "Cloud", task) # {} THEN "Cloud"
    ELSE ""

\* the tier the task is tried on: the first of Edge, Regional, Cloud with an
\* eligible server, "" if there is none
ChosenTier(srvs, task) ==
    IF Eligible(srvs, "Edge", task) # {} THEN "Edge"
    ELSE IF Eligible(srvs, "Regional", task) # {} THEN "Regional"
    ELSE IF Eligible(srvs, "Cloud", task) # {} THEN "Cloud"
    ELSE ""

\* the body of schedule's loop for one task: the servers afterwards and the
\* `server` appended with the task to results (None if not assigned)
ScheduleOne(srvs, task, now) ==
    LET tier == ChosenTier(srvs, task)
    IN IF tier = ""
       THEN [servers |-> srvs, server |-> None]
       ELSE LET selected == Selected(srvs, Eligible(srvs, tier, task))
                release_time == now + latency(selected)
                r == allocate(selected, srvs[selected], task.id, task.cpu_demand,
                              task.storage_demand, task.memory_demand, release_time)
            IN [servers |-> [srvs EXCEPT ![selected] = r.srv],
                server |-> selected]

\* no call of schedule() in progress
NoPasses == <<>>

(***************************************************************************)
(* core/simulator.py                                                       *)
(***************************************************************************)
\* the three available quantities of a server
Avail(srv) == <<srv.available_cpu, srv.available_storage, srv.available_memory>>

\* a call record of the ledger caller: the operation, its arguments (time is
\* release_time of allocate, current_time of release_completed_tasks), its return
\* value, the server's available quantities before the call, and `follows`:
\* for a release_completed_tasks(now), the operation of the call made just
\* before it if that was an allocate that succeeded with release_time = now
\* or a release_completed_tasks(now) with the same now ("none" otherwise)
NoCall ==
    [op |-> "none", task_id |-> 0, cpu |-> 0, storage |-> 0, memory |-> 0,
     time |-> 0, ret |-> FALSE, before |-> <<0, 0, 0>>, follows |-> "none"]

Follows(c, now) ==
    IF c.time = now /\ (c.op = "release" \/ (c.op = "allocate" /\ c.ret))
    THEN c.op
    ELSE "none"

\* Simulator.__init__: servers at full availability, one MobileEntity per
\* device index, placed at and attached to servers[i % num_servers]
InitCommon ==
    /\ servers = [s \in ServerIds |-> NewServer(s)]
    /\ current_time = 0
    /\ round_no = 1
    /\ tasks = <<>>
    /\ assignments = <<>>
    /\ idx = 0
    /\ failed_count = 0
    /\ next_id = 1
    /\ server_pos = [s \in ServerIds |-> ConfigPosition(s)]
    /\ entities = [i \in EntityIds |->
                     LET srv == (i % Cardinality(ServerIds)) + 1
                     IN [position |-> ConfigPosition(srv), attached_server |-> srv]]
    /\ ho_count = 0
    /\ ho_delay = 0
    /\ ho_ret = <<0, 0>>
    /\ reports = <<>>
    /\ call = NoCall
    /\ waypoint = NoWaypoint
    /\ passes = NoPasses

Init == InitCommon /\ pc = "mobility"

\* the points server s may be at after a time slice (srv.mobility.next_position):
\* the first server wanders between its configured position and one more
\* point, the others are kept where the configuration puts them. From <<1, 2>>
\* the first server is 0.97 dB weaker at <<0, 0>> than the second: a gain
\* below the threshold
ServerPoints(s) ==
    IF s = 1 THEN {ConfigPosition(s), <<1, 2>>} ELSE {ConfigPosition(s)}

\* the server positions a time slice may lead to
ServerPlacements ==
    {spos \in [ServerIds -> UNION {ServerPoints(s) : s \in ServerIds}] :
        \A s \in ServerIds : spos[s] \in ServerPoints(s)}

\* one handover counted for a time slice in which any entity hands over
CountTrue_Any(f, S) == IF \E x \in S : f[x] THEN 1 ELSE 0

RECURSIVE CountTrue(_, _)
CountTrue(f, S) ==
    IF S = {} THEN 0
    ELSE LET x == CHOOSE y \in S : TRUE
         IN (IF f[x] THEN 1 ELSE 0) + CountTrue(f, S \ {x})

\* step 1: ho_count, ho_delay = self.mobility.update_all();
\*         self.current_time += ho_delay
\* (next_position of each RandomWaypoint is a choice among the grid points)
Mobility ==
    /\ pc = "mobility"
    /\ \E spos \in ServerPlacements, epos \in [EntityIds -> Points] :
         /\ LET upd == [i \in EntityIds |->
                          UpdateEntity(epos[i], spos, entities[i].attached_server)]
                n == CountTrue([i \in EntityIds |-> upd[i].handover], EntityIds)
            IN /\ server_pos' = spos
               /\ entities' = [i \in EntityIds |->
                                 [position |-> epos[i],
                                  attached_server |-> upd[i].attached_server]]
               /\ ho_count' = ho_count + n
               /\ ho_delay' = ho_delay + (n * HandoverLatencyMs)
    /\ ho_ret' = <<ho_count', ho_delay'>>
    /\ current_time' = current_time + ho_ret'[2]
    /\ pc' = "release"
    /\ UNCHANGED <<servers, round_no, tasks, assignments, idx, failed_count,
                   next_id, reports, call,
                   waypoint, passes>>

\* step 2 looping over the Edge servers only
Release_EdgeOnly ==
    /\ pc = "release"
    /\ servers' = [s \in ServerIds |->
                     IF Tier(s) = "Edge"
                     THEN release_completed_tasks(servers[s], current_time)
                     ELSE servers[s]]
    /\ pc' = "generate"
    /\ UNCHANGED <<current_time, round_no, tasks, assignments, idx, failed_count,
                   next_id, server_pos, entities, ho_count, ho_delay, ho_ret,
                   reports, call,
                   waypoint, passes>>

\* step 2: for srv in self.servers: srv.release_completed_tasks(current_time)
Release ==
    /\ pc = "release"
    /\ servers' = [s \in ServerIds |-> release_completed_tasks(servers[s], current_time)]
    /\ pc' = "generate"
    /\ UNCHANGED <<current_time, round_no, tasks, assignments, idx, failed_count,
                   next_id, server_pos, entities, ho_count, ho_delay, ho_ret,
                   reports, call,
                   waypoint, passes>>

\* step 3: self.tasks = self.generator.generate_tasks(round_no), entity_id tags
Generate ==
    /\ pc = "generate"
    /\ tasks' = generate_tasks(round_no, next_id)
    /\ next_id' = next_id + CurrentDevices(round_no)
    /\ assignments' = <<>>
    /\ idx' = 1
    /\ pc' = "schedule"
    /\ UNCHANGED <<servers, current_time, round_no, failed_count, server_pos,
                   entities, ho_count, ho_delay, ho_ret, reports, call,
                   waypoint, passes>>

\* step 4, one iteration of RuleBasedScheduler.schedule's for task in tasks
ScheduleTask ==
    /\ pc = "schedule"
    /\ idx <= Len(tasks)
    /\ LET r == ScheduleOne(servers, tasks[idx], current_time)
       IN /\ servers' = r.servers
          /\ assignments' = Append(assignments, <<idx, r.server>>)
    /\ idx' = idx + 1
    /\ UNCHANGED <<current_time, round_no, pc, tasks, failed_count, next_id,
                   server_pos, entities, ho_count, ho_delay, ho_ret, reports,
                   call, waypoint,
                   passes>>

\* schedule returns results; failed_count = initial_count - assigned_count;
\* self.tasks = [t for t in self.tasks if not t.is_assigned()] keeps every
\* task, server_assigned being None on all of them
ScheduleReturn ==
    /\ pc = "schedule"
    /\ idx > Len(tasks)
    /\ failed_count' = Len(tasks) - Len(assignments)
    /\ tasks' = SelectSeq(tasks, LAMBDA t : t.server_assigned = None)
    /\ idx' = 1
    /\ pc' = "apply"
    /\ UNCHANGED <<servers, current_time, round_no, assignments, next_id,
                   server_pos, entities, ho_count, ho_delay, ho_ret, reports,
                   call, waypoint,
                   passes>>

\* the deduction without max(..., 0)
Max0_NoClamp(x) == x

\* max(x, 0)
Max0(x) == IF x > 0 THEN x ELSE 0

\* the resource lines of the loop "for task, srv in assignments"
ApplyDeduct(srv, task) ==
    [srv EXCEPT
        !.available_cpu = Max0(@ - task.cpu_demand),
        !.available_storage = Max0(@ - task.data_size_kb),
        !.available_memory = Max0(@ - task.memory_demand)]

\* one iteration of "for task, srv in assignments"; srv.latency on a pair whose
\* server is None raises AttributeError, which ends run()
ApplyPair ==
    /\ pc = "apply"
    /\ idx <= Len(assignments)
    /\ LET t == assignments[idx][1]
           srv == assignments[idx][2]
       IN IF srv = None
          THEN /\ pc' = "crashed"
               /\ UNCHANGED <<servers, tasks, idx>>
          ELSE /\ tasks' = [tasks EXCEPT ![t] =
                              complete(@, current_time, current_time + latency(srv))]
               /\ servers' = [servers EXCEPT ![srv] = ApplyDeduct(@, tasks[t])]
               /\ idx' = idx + 1
               /\ pc' = pc
    /\ UNCHANGED <<current_time, round_no, assignments, failed_count, next_id,
                   server_pos, entities, ho_count, ho_delay, ho_ret, reports,
                   call, waypoint,
                   passes>>

\* assigned_here = [t for t, s in assignments if s is srv]
AssignedHere(s) == {k \in 1 .. Len(assignments) : assignments[k][2] = s}

RECURSIVE ReportRows(_)
\* the rows reported for the servers s .. last, in list order
ReportRows(s) ==
    IF s \notin ServerIds THEN <<>>
    ELSE IF AssignedHere(s) = {} THEN ReportRows(s + 1)
    ELSE <<[round_no |-> round_no,
            devices |-> Len(tasks),
            layer |-> s,
            workload |-> Cardinality(AssignedHere(s)) * DataPerDeviceKb,
            ho_count |-> ho_count,
            ho_delay |-> ho_delay,
            failed |-> failed_count]>> \o ReportRows(s + 1)

\* the metrics loop over self.servers, after the apply loop has ended
Metrics ==
    /\ pc = "apply"
    /\ idx > Len(assignments)
    /\ reports' = ReportRows(1)
    /\ pc' = "advance"
    /\ UNCHANGED <<servers, current_time, round_no, tasks, assignments, idx,
                   failed_count, next_id, server_pos, entities, ho_count, ho_delay,
                   ho_ret, call, waypoint,
                   passes>>

\* self.current_time += 1 and the next iteration of for round_no in range(...)
Advance ==
    /\ pc = "advance"
    /\ current_time' = current_time + 1
    /\ IF round_no < TotalRounds
       THEN round_no' = round_no + 1 /\ pc' = "mobility"
       ELSE round_no' = round_no /\ pc' = "done"
    /\ UNCHANGED <<servers, tasks, assignments, idx, failed_count, next_id,
                   server_pos, entities, ho_count, ho_delay, ho_ret, reports,
                   call, waypoint,
                   passes>>

Next ==
    \/ Mobility
    \/ Release
    \/ Generate
    \/ ScheduleTask
    \/ ScheduleReturn
    \/ ApplyPair
    \/ Metrics
    \/ Advance

Spec == Init /\ [][Next]_vars

(***************************************************************************)
(* SpecLedger: Server.allocate and Server.release_completed_tasks called   *)
(* directly, in any order and with any arguments within the bounds, on the *)
(* Cloud server. Item ids may be reused while still reserved.              *)
(***************************************************************************)
InitLedger == InitCommon /\ pc = "api"

LedgerServers == {s \in ServerIds : Tier(s) = "Cloud"}
ItemIds == {1, 2}
Demands == 0 .. DataPerDeviceKb
Times == 0 .. MaxTime

ApiAllocate ==
    /\ pc = "api"
    /\ \E s \in LedgerServers, task_id \in ItemIds, cpu \in Demands,
          storage \in Demands, memory \in Demands, release_time \in Times :
         LET r == allocate(s, servers[s], task_id, cpu, storage, memory,
                           release_time)
         IN /\ r.ret => servers[s].total_data_transferred_kb
                            < MaxAllocs * DataPerDeviceKb
            /\ servers' = [servers EXCEPT ![s] = r.srv]
            /\ call' = [op |-> "allocate", task_id |-> task_id, cpu |-> cpu,
                        storage |-> storage, memory |-> memory,
                        time |-> release_time, ret |-> r.ret,
                        before |-> Avail(servers[s]), follows |-> "none"]
    /\ UNCHANGED simvars

ApiRelease ==
    /\ pc = "api"
    /\ \E s \in LedgerServers, now \in Times :
         /\ servers' = [servers EXCEPT ![s] = release_completed_tasks(@, now)]
         /\ call' = [op |-> "release", task_id |-> 0, cpu |-> 0, storage |-> 0,
                     memory |-> 0, time |-> now, ret |-> TRUE,
                     before |-> Avail(servers[s]), follows |-> Follows(call, now)]
    /\ UNCHANGED simvars

NextLedger ==
    \/ ApiAllocate
    \/ ApiRelease

SpecLedger == InitLedger /\ [][NextLedger]_vars

(***************************************************************************)
(* SpecMobility: MobilityManager(servers, devices).update_all() called     *)
(* repeatedly on servers and entities that carry no mobility controller    *)
(* (update_all then calls ent.move, which leaves a 2D position as it is):  *)
(* positions stay where the caller put them. An entity starts attached to  *)
(* any server or to none (MobileEntity.__init__).                         *)
(***************************************************************************)
\* the placements of the servers: those of the simulator and one with the
\* first server at <<0, 1>> and the others far away at <<0, 100>>
FixedPlacements ==
    ServerPlacements
        \cup {[s \in ServerIds |-> IF s = 1 THEN <<0, 1>> ELSE <<0, 100>>]}

\* the record kept of the update_all() calls made so far: the attached_server
\* of every entity before the last call, the entities for which the last call
\* took the handover branch, and those for which an earlier call took it
NoUpdate == [op |-> "none", from |-> <<>>, last |-> {}, handed |-> {}]

InitMobility ==
    /\ pc = "update_all"
    /\ server_pos \in FixedPlacements
    /\ entities \in [EntityIds ->
                       [position : Points, attached_server : ServerIds \cup {None}]]
    /\ ho_count = 0
    /\ ho_delay = 0
    /\ ho_ret = <<0, 0>>
    /\ call = NoUpdate
    /\ servers = [s \in ServerIds |-> NewServer(s)]
    /\ current_time = 0
    /\ round_no = 1
    /\ tasks = <<>>
    /\ assignments = <<>>
    /\ idx = 0
    /\ failed_count = 0
    /\ next_id = 1
    /\ reports = <<>>
    /\ waypoint = NoWaypoint
    /\ passes = NoPasses

\* MobilityManager.update_all with nothing moving
ApiUpdateAll ==
    /\ pc = "update_all"
    /\ LET upd == [i \in EntityIds |->
                     UpdateEntity(entities[i].position, server_pos,
                                  entities[i].attached_server)]
           last == {i \in EntityIds : upd[i].handover}
       IN /\ entities' = [i \in EntityIds |->
                            [entities[i] EXCEPT
                                !.attached_server = upd[i].attached_server]]
          /\ ho_count' = ho_count + Cardinality(last)
          /\ ho_delay' = ho_delay + (Cardinality(last) * HandoverLatencyMs)
          /\ call' = [op |-> "update_all",
                      from |-> [i \in EntityIds |-> entities[i].attached_server],
                      last |-> last,
                      handed |-> IF call.op = "none" THEN {}
                                 ELSE call.handed \cup call.last]
    /\ ho_ret' = <<ho_count', ho_delay'>>
    /\ UNCHANGED <<servers, current_time, round_no, pc, tasks, assignments, idx,
                   failed_count, next_id, server_pos, reports, waypoint,
                   passes>>

NextMobility ==
    \/ ApiUpdateAll

SpecMobility == InitMobility /\ [][NextMobility]_vars

(***************************************************************************)
(* Ratios: Server.utilization, Server.congestion (entities/server.py),     *)
(* calculate_congestion (config/metrics.py), the utilization lines of      *)
(* Simulator.run and MobilityManager.get_metrics. A percentage rounded to  *)
(* two decimals is kept as an integer number of hundredths. The outcome of  *)
(* a call is a record: the value returned, or the exception raised.        *)
(***************************************************************************)
Returns(v) == [raises |-> "none", value |-> v]
Raises(e) == [raises |-> e, value |-> 0]

\* round(num / den, 0) for num >= 0 and den > 0, ties to the even neighbour
RoundDiv(num, den) ==
    LET q == num \div den
        r == num % den
    IN IF 2 * r < den THEN q
       ELSE IF 2 * r > den THEN q + 1
       ELSE IF q % 2 = 0 THEN q ELSE q + 1

\* Server.congestion: round((total_data_transferred_kb / bandwidth) * 100, 2)
congestion(total_data_transferred_kb, bw) ==
    IF bw = 0 THEN Raises("ZeroDivisionError")
    ELSE Returns(RoundDiv(total_data_transferred_kb * 10000, bw))

\* calculate_congestion(total_data_kb, bandwidth_kbps)
calculate_congestion(total_data_kb, bandwidth_kbps) ==
    IF bandwidth_kbps = 0 THEN Raises("ZeroDivisionError")
    ELSE Returns(RoundDiv(total_data_kb * 10000, bandwidth_kbps))

\* one component of Server.utilization:
\* 100 * (1 - available / capacity) if capacity else 0, rounded
utilization(available, capacity) ==
    IF capacity # 0
    THEN RoundDiv(10000 * (capacity - available), capacity)
    ELSE 0

\* cpu_util / memory_util / storage_util of Simulator.run:
\* round(used / capacity * 100, 2) with used = capacity - available
run_utilization(available, capacity) ==
    LET used == capacity - available
    IN IF capacity = 0 THEN Raises("ZeroDivisionError")
       ELSE Returns(RoundDiv(used * 10000, capacity))

RECURSIVE SumOver(_, _)
SumOver(f, S) ==
    IF S = {} THEN 0
    ELSE LET x == CHOOSE y \in S : TRUE
         IN f[x] + SumOver(f, S \ {x})

\* get_metrics without "if n == 0"
get_metrics_NoGuard(ents, count, delay) ==
    IF DOMAIN ents = {} THEN Raises("ZeroDivisionError")
    ELSE Returns([avg_pos |-> 0, ho_count |-> count, ho_delay |-> delay])

\* MobilityManager.get_metrics: avg_pos is the mean distance of the entities
\* from their centroid, in hundredths (each distance truncated to the
\* hundredth): with n entities, x_bar = sx / n and y_bar = sy / n, the
\* distance of entity i is sqrt((n*x - sx)^2 + (n*y - sy)^2) / n
get_metrics(ents, count, delay) ==
    LET ids == DOMAIN ents
        n == Cardinality(ids)
    IN IF n = 0
       THEN Returns([avg_pos |-> 0, ho_count |-> count, ho_delay |-> delay])
       ELSE LET sx == SumOver([i \in ids |-> ents[i].position[1]], ids)
                sy == SumOver([i \in ids |-> ents[i].position[2]], ids)
                d100 == [i \in ids |->
                           LET dx == (n * ents[i].position[1]) - sx
                               dy == (n * ents[i].position[2]) - sy
                               sq == ((dx * dx) + (dy * dy)) * 10000
                               hi == 100 * ((IF dx < 0 THEN -dx ELSE dx)
                                            + (IF dy < 0 THEN -dy ELSE dy))
                           IN ISqrtBetween(sq, 0, hi)]
            IN Returns([avg_pos |-> RoundDiv(SumOver(d100, ids), n * n),
                        ho_count |-> count, ho_delay |-> delay])

(***************************************************************************)
(* SpecMetrics: the ratio functions called with quantities up to the       *)
(* bounds below, zero capacities and bandwidths included, and get_metrics  *)
(* called on a MobilityManager holding any number of entities up to        *)
(* MaxEntities, none included. One call is made from each start.           *)
(***************************************************************************)
MaxQuantity == 2
MaxEntities == 2

Quantities == 0 .. MaxQuantity

InitMetrics ==
    /\ pc = "metrics"
    /\ \E n \in 0 .. MaxEntities :
          entities \in [0 .. (n - 1) ->
                           [position : Points, attached_server : {None}]]
    /\ ho_count \in 0 .. 1
    /\ ho_delay = ho_count * HandoverLatencyMs
    /\ ho_ret = <<0, 0>>
    /\ call = [op |-> "none", args |-> <<>>, ret |-> Returns(0)]
    /\ server_pos = [s \in ServerIds |-> ConfigPosition(s)]
    /\ servers = [s \in ServerIds |-> NewServer(s)]
    /\ current_time = 0
    /\ round_no = 1
    /\ tasks = <<>>
    /\ assignments = <<>>
    /\ idx = 0
    /\ failed_count = 0
    /\ next_id = 1
    /\ reports = <<>>
    /\ waypoint = NoWaypoint
    /\ passes = NoPasses

CallCongestion ==
    /\ pc = "metrics"
    /\ \E total \in Quantities, bw \in Quantities :
          call' = [op |-> "congestion", args |-> <<total, bw>>,
                   ret |-> congestion(total, bw)]
    /\ pc' = "returned"
    /\ UNCHANGED <<servers, current_time, round_no, tasks, assignments, idx,
                   failed_count, next_id, server_pos, entities, ho_count, ho_delay,
                   ho_ret, reports, waypoint,
                   passes>>

CallCalculateCongestion ==
    /\ pc = "metrics"
    /\ \E total \in Quantities, bw \in Quantities :
          call' = [op |-> "calculate_congestion", args |-> <<total, bw>>,
                   ret |-> calculate_congestion(total, bw)]
    /\ pc' = "returned"
    /\ UNCHANGED <<servers, current_time, round_no, tasks, assignments, idx,
                   failed_count, next_id, server_pos, entities, ho_count, ho_delay,
                   ho_ret, reports, waypoint,
                   passes>>

\* Server.utilization() of a server with the given available quantities and
\* capacities, in the order cpu, storage, memory
CallUtilization ==
    /\ pc = "metrics"
    /\ \E cap \in [1 .. 3 -> Quantities] :
          \E avail \in {a \in [1 .. 3 -> Quantities] : \A k \in 1 .. 3 : a[k] <= cap[k]} :
             call' = [op |-> "utilization", args |-> <<avail, cap>>,
                      ret |-> Returns([k \in 1 .. 3 |->
                                          utilization(avail[k], cap[k])])]
    /\ pc' = "returned"
    /\ UNCHANGED <<servers, current_time, round_no, tasks, assignments, idx,
                   failed_count, next_id, server_pos, entities, ho_count, ho_delay,
                   ho_ret, reports, waypoint,
                   passes>>

CallRunUtilization ==
    /\ pc = "metrics"
    /\ \E cap \in Quantities :
          \E avail \in 0 .. cap :
             call' = [op |-> "run_utilization", args |-> <<avail, cap>>,
                      ret |-> run_utilization(avail, cap)]
    /\ pc' = "returned"
    /\ UNCHANGED <<servers, current_time, round_no, tasks, assignments, idx,
                   failed_count, next_id, server_pos, entities, ho_count, ho_delay,
                   ho_ret, reports, waypoint,
                   passes>>

CallGetMetrics ==
    /\ pc = "metrics"
    /\ call' = [op |-> "get_metrics", args |-> <<>>,
                ret |-> get_metrics(entities, ho_count, ho_delay)]
    /\ pc' = "returned"
    /\ UNCHANGED <<servers, current_time, round_no, tasks, assignments, idx,
                   failed_count, next_id, server_pos, entities, ho_count, ho_delay,
                   ho_ret, reports, waypoint,
                   passes>>

NextMetrics ==
    \/ CallCongestion
    \/ CallCalculateCongestion
    \/ CallUtilization
    \/ CallRunUtilization
    \/ CallGetMetrics

SpecMetrics == InitMetrics /\ [][NextMetrics]_vars

(***************************************************************************)
(* SpecWaypoint: one RandomWaypoint, constructed with any drawn position,  *)
(* target and pause time, on which next_position is called tick after      *)
(* tick. `call` keeps the fields the waypoint had before the last call.    *)
(***************************************************************************)
InitWaypoint ==
    /\ pc = "waypoint"
    /\ \E pos \in WaypointPoints, target \in WaypointPoints, pause \in PauseTimes :
          waypoint = NewWaypoint(pos, target, pause)
    /\ call = [op |-> "none", before |-> NoWaypoint]
    /\ servers = [s \in ServerIds |-> NewServer(s)]
    /\ current_time = 0
    /\ round_no = 1
    /\ tasks = <<>>
    /\ assignments = <<>>
    /\ idx = 0
    /\ failed_count = 0
    /\ next_id = 1
    /\ server_pos = [s \in ServerIds |-> ConfigPosition(s)]
    /\ entities = <<>>
    /\ ho_count = 0
    /\ ho_delay = 0
    /\ ho_ret = <<0, 0>>
    /\ reports = <<>>
    /\ passes = NoPasses

\* one call of next_position; a waypoint that has gone past MaxCoord is
\* followed no further
Tick ==
    /\ pc = "waypoint"
    /\ waypoint.state \in {"pause", "move"}
    /\ Abs(waypoint.pos[1]) <= MaxCoord
    /\ Abs(waypoint.pos[2]) <= MaxCoord
    /\ \E point \in WaypointPoints, speed \in Speeds, pause \in PauseTimes :
          waypoint' = next_position(waypoint, point, speed, pause)
    /\ call' = [op |-> "next_position", before |-> waypoint]
    /\ UNCHANGED <<servers, current_time, round_no, pc, tasks, assignments, idx,
                   failed_count, next_id, server_pos, entities, ho_count, ho_delay,
                   ho_ret, reports, passes>>

NextWaypoint ==
    \/ Tick

SpecWaypoint == InitWaypoint /\ [][NextWaypoint]_vars

(***************************************************************************)
(* Properties                                                              *)
(***************************************************************************)
Capacity(s) == <<cpu_capacity(s), storage_capacity(s), memory_capacity(s)>>

\* the reserved <<cpu, storage, memory>> summed over the reservations in S
Reserved(srv, S) ==
    <<SumField(srv.running_tasks, S, 1), SumField(srv.running_tasks, S, 2),
      SumField(srv.running_tasks, S, 3)>>

\* C1: in every state of a run, every server has
\* 0 <= available_X <= capacity_X for X in cpu, storage, memory.
C1_AvailabilityWithinCapacity ==
    \A s \in ServerIds :
        /\ 0 <= servers[s].available_cpu
        /\ servers[s].available_cpu <= cpu_capacity(s)
        /\ 0 <= servers[s].available_storage
        /\ servers[s].available_storage <= storage_capacity(s)
        /\ 0 <= servers[s].available_memory
        /\ servers[s].available_memory <= memory_capacity(s)

\* a later round is being scheduled: one server has had its reservation
\* released (after allocate and the apply loop acted on it) and another is
\* holding a reservation with no CPU left
C1_Witness ==
    /\ pc = "schedule"
    /\ round_no > 1
    /\ \E s \in ServerIds :
          /\ servers[s].total_data_transferred_kb > 0
          /\ servers[s].running_tasks = <<>>
    /\ \E s \in ServerIds :
          /\ servers[s].running_tasks # <<>>
          /\ servers[s].available_cpu = 0

\* C2: at every point of a run, every server has
\* available_X = capacity_X - (sum of the reserved X over its reservations).
C2_LedgerConservation ==
    \A s \in ServerIds :
        \A k \in 1 .. 3 :
            Avail(servers[s])[k] =
                Capacity(s)[k]
                    - Reserved(servers[s], DOMAIN servers[s].running_tasks)[k]

\* C3: applying the returned pairs (the loop over assignments) leaves every
\* server's available cpu, storage and memory unchanged.
C3_ApplyLeavesAvailability ==
    [][pc = "apply" =>
          \A s \in ServerIds : Avail(servers'[s]) = Avail(servers[s])]_vars

\* C4: an allocate called when can_allocate is false for the demand returns
\* False and leaves the server unchanged: availability, reservations,
\* transferred data and cost.
C4_FailedAllocateNoMutation ==
    [][\A s \in LedgerServers :
          (/\ call'.op = "allocate"
           /\ ~can_allocate(servers[s], call'.cpu, call'.storage, call'.memory))
          => (~call'.ret /\ servers' = servers)]_vars

\* an allocate has just failed on memory alone, with a positive cpu and
\* storage demand that would have fitted
C4_Witness ==
    /\ call.op = "allocate"
    /\ ~call.ret
    /\ call.cpu > 0
    /\ call.storage > 0
    /\ call.cpu <= call.before[1]
    /\ call.storage <= call.before[2]
    /\ call.memory > call.before[3]

C6_ReleaseIdempotent ==
    [][\A s \in LedgerServers :
          (call'.op = "release") =>
             LET removed == (DOMAIN servers[s].running_tasks)
                                \ (DOMAIN servers'[s].running_tasks)
             IN /\ \A k \in 1 .. 3 :
                      Avail(servers'[s])[k] =
                          Avail(servers[s])[k] + Reserved(servers[s], removed)[k]
                /\ (call.op = "release" /\ call'.time = call.time)
                      => servers' = servers]_vars

\* a release has just followed a release with the same now, on a server whose
\* one allocation (of a positive cpu demand) has been released
C6_Witness ==
    /\ call.op = "release"
    /\ call.follows = "release"
    /\ \E s \in LedgerServers :
          /\ servers[s].total_data_transferred_kb = DataPerDeviceKb
          /\ servers[s].total_cost > DataPerDeviceKb * tx_cost(s)
          /\ servers[s].running_tasks = <<>>
          /\ Avail(servers[s]) = Capacity(s)

\* the task ids of this round that some server holds a reservation for
Admitted ==
    {k \in 1 .. Len(tasks) :
        \E s \in ServerIds : tasks[k].id \in DOMAIN servers[s].running_tasks}

\* C7: every pair the scheduler appends to its results names a server, and
\* can_allocate held on that server for the task's demand just before.
C7_PairsWereAdmissible ==
    [][(pc = "schedule" /\ Len(assignments') = Len(assignments) + 1) =>
          LET t == assignments'[Len(assignments')][1]
              srv == assignments'[Len(assignments')][2]
          IN /\ srv \in ServerIds
             /\ can_allocate(servers[srv], tasks[t].cpu_demand,
                             tasks[t].storage_demand, tasks[t].memory_demand)]_vars

\* C8: while the scheduler runs, the tasks in its results are exactly the
\* tasks some server admitted: a task no server can admit is not in it.
C8_ResultsAreTheAdmitted ==
    (pc = "schedule") =>
        {assignments[k][1] : k \in 1 .. Len(assignments)} = Admitted

\* C9: a round in which the scheduler could not place some task does not end
\* the run.
C9_AdmissionFailureNonFatal ==
    (\E k \in 1 .. Len(tasks) : k \notin Admitted) => pc # "crashed"

\* C10: once the scheduler has returned, failed_count is the number of tasks
\* submitted less the number of pairs returned, and it is the number of tasks
\* of the round that no server admitted.
C10_FailedCount ==
    (pc = "apply") =>
        /\ failed_count = Len(tasks) - Len(assignments)
        /\ failed_count = Len(tasks) - Cardinality(Admitted)

\* C11: once the scheduler has returned for a round, every task of the round
\* that no server admitted has status "failed" (not "created", not "completed").
C11_UnplacedIsFailed ==
    (pc \in {"apply", "advance", "crashed"}) =>
        \A k \in 1 .. Len(tasks) :
            (k \notin Admitted) => tasks[k].status = "failed"

\* C12: while the scheduler runs, every task it has recorded in a pair with a
\* server has status "scheduled".
C12_PlacedIsScheduled ==
    (pc = "schedule") =>
        \A k \in 1 .. Len(assignments) :
            (assignments[k][2] # None)
                => tasks[assignments[k][1]].status = "scheduled"

\* the servers of a tier that can admit the demand of task t in state srvs
Feasible(srvs, tier, t) ==
    {o \in ServerIds :
        /\ Tier(o) = tier
        /\ srvs[o].available_cpu >= t.cpu_demand
        /\ srvs[o].available_storage >= t.storage_demand
        /\ srvs[o].available_memory >= t.memory_demand}

\* C13: the scheduler places a task on an Edge server whenever some Edge server
\* can admit it at that moment, on a Regional server only if no Edge server
\* can, and on a Cloud server only if no Edge and no Regional server can.
C13_TierOrder ==
    [][(pc = "schedule" /\ Len(assignments') = Len(assignments) + 1) =>
          LET t == tasks[assignments'[Len(assignments')][1]]
              srv == assignments'[Len(assignments')][2]
          IN /\ (Feasible(servers, "Edge", t) # {})
                    => (srv \in ServerIds /\ Tier(srv) = "Edge")
             /\ (srv \in ServerIds /\ Tier(srv) = "Regional")
                    => Feasible(servers, "Edge", t) = {}
             /\ (srv \in ServerIds /\ Tier(srv) = "Cloud")
                    => (/\ Feasible(servers, "Edge", t) = {}
                        /\ Feasible(servers, "Regional", t) = {})]_vars

\* in one round the scheduler has placed tasks on an Edge, on a Regional and
\* on the Cloud server, and it could place the last task nowhere
C13_Witness ==
    /\ pc = "schedule"
    /\ \E k \in 1 .. Len(assignments) :
          assignments[k][2] \in ServerIds /\ Tier(assignments[k][2]) = "Edge"
    /\ \E k \in 1 .. Len(assignments) :
          assignments[k][2] \in ServerIds /\ Tier(assignments[k][2]) = "Cloud"
    /\ \E k \in 1 .. Len(assignments) : assignments[k][2] = None

\* C14: the server a task is placed on has, just before the allocation, the
\* least available_cpu + available_memory + available_storage among the
\* servers of its tier that can admit the task.
C14_LeastAvailableInTier ==
    [][(pc = "schedule" /\ Len(assignments') = Len(assignments) + 1) =>
          LET t == tasks[assignments'[Len(assignments')][1]]
              srv == assignments'[Len(assignments')][2]
          IN (srv \in ServerIds) =>
                /\ srv \in Feasible(servers, Tier(srv), t)
                /\ \A o \in Feasible(servers, Tier(srv), t) :
                      servers[srv].available_cpu + servers[srv].available_memory
                            + servers[srv].available_storage
                         <= servers[o].available_cpu + servers[o].available_memory
                                + servers[o].available_storage]_vars

\* the last task was placed on a server while another server of the same tier
\* could admit it too and had a larger sum of available quantities
C14_Witness ==
    /\ pc = "schedule"
    /\ Len(assignments) >= 1
    /\ LET t == tasks[assignments[Len(assignments)][1]]
           srv == assignments[Len(assignments)][2]
       IN /\ srv \in ServerIds
          /\ \E o \in Feasible(servers, Tier(srv), t) :
                /\ o # srv
                /\ servers[o].available_cpu + servers[o].available_memory
                       + servers[o].available_storage
                     > servers[srv].available_cpu + servers[srv].available_memory
                         + servers[srv].available_storage
                         + t.cpu_demand + t.memory_demand + t.storage_demand

\* C15: update_all returns the number of handovers of that call and the
\* handover delay of that call, not the totals since construction.
C15_ReturnsThisCallOnly ==
    [][(pc = "mobility") =>
          ho_ret' = <<ho_count' - ho_count, ho_delay' - ho_delay>>]_vars

\* C16: when a round starts, the clock is the number of rounds completed plus
\* handover_latency_ms times the number of handovers there have been.
C16_ClockChargesEachHandoverOnce ==
    (pc = "mobility") =>
        current_time = (round_no - 1) + (HandoverLatencyMs * ho_count)

\* C17: in a time slice an entity's attached server changes only to the
\* server of strongest signal at the positions after the movement, and only
\* if that signal exceeds the signal of the server it was attached to by the
\* handover threshold or more; an entity at (0,0) attached to a server at
\* (0,1) does not hand over to a server at (0,100).
C17_HandoverOnlyAboveThreshold ==
    [][/\ (pc = "mobility") =>
             \A i \in EntityIds :
                 LET p == entities'[i].position
                     old == entities[i].attached_server
                     new == entities'[i].attached_server
                 IN (old # None /\ new # old) =>
                       /\ \A o \in ServerIds :
                             ClampedDist2(p, server_pos'[new])
                                 <= ClampedDist2(p, server_pos'[o])
                       /\ ClampedDist2(p, server_pos'[old]) * ThresholdDen
                             >= ThresholdNum * ClampedDist2(p, server_pos'[new])
       /\ UpdateEntity(<<0, 0>>,
                       [s \in ServerIds |-> IF s = 1 THEN <<0, 1>> ELSE <<0, 100>>],
                       1) = [attached_server |-> 1, handover |-> FALSE]]_vars

\* after a time slice one entity has handed over, and another is still
\* attached to a server that is weaker than the strongest one, by less than
\* the threshold
C17_Witness ==
    /\ pc = "release"
    /\ ho_ret[1] > ho_count - ho_ret[1]
    /\ \E i \in EntityIds :
          \E o \in ServerIds :
             LET p == entities[i].position
                 a == entities[i].attached_server
             IN /\ ClampedDist2(p, server_pos[o]) < ClampedDist2(p, server_pos[a])
                /\ ClampedDist2(p, server_pos[a]) * ThresholdDen
                      < ThresholdNum * ClampedDist2(p, server_pos[o])

\* C18: with positions held fixed, an entity that has handed over in an
\* update_all does not hand over in any later update_all: its attached server
\* stays the one it handed over to.
C18_NoPingPong ==
    [][(call.op = "update_all" /\ call'.op = "update_all") =>
          \A i \in call.handed \cup call.last :
              /\ i \notin call'.last
              /\ entities'[i].attached_server = entities[i].attached_server
              /\ ho_count' <= Cardinality(EntityIds)]_vars

\* an entity handed over in an earlier update_all, and the last update_all,
\* which found it attached to the server it had handed over to, left it there
C18_Witness ==
    /\ call.op = "update_all"
    /\ \E i \in call.handed :
          /\ i \notin call.last
          /\ call.from[i] = entities[i].attached_server
    /\ ho_count >= 1

\* C19: an update_all attaches every entity that had no attached server to a
\* server of maximal signal strength, and adds to ho_count and ho_delay only
\* for the entities that were attached and changed server.
C19_FirstAttachIsFree ==
    [][(call'.op = "update_all") =>
          LET switched == {i \in EntityIds :
                              /\ entities[i].attached_server # None
                              /\ entities'[i].attached_server
                                     # entities[i].attached_server}
          IN /\ \A i \in EntityIds :
                   (entities[i].attached_server = None) =>
                       /\ entities'[i].attached_server \in ServerIds
                       /\ \A o \in ServerIds :
                             ClampedDist2(entities'[i].position,
                                          server_pos'[entities'[i].attached_server])
                                <= ClampedDist2(entities'[i].position, server_pos'[o])
             /\ ho_count' = ho_count + Cardinality(switched)
             /\ ho_delay' = ho_delay + (Cardinality(switched) * HandoverLatencyMs)]_vars

\* the one update_all made attached an entity that had no server, to a server
\* other than the first of the list, and counted nothing
C19_Witness ==
    /\ call.op = "update_all"
    /\ call.handed = {}
    /\ \E i \in EntityIds :
          /\ call.from[i] = None
          /\ entities[i].attached_server \in ServerIds \ {1}
    /\ ho_count = 0
    /\ ho_delay = 0

\* C20: from the end of step 2 until the scheduler has returned, no server
\* holds a reservation whose release time is <= the current clock.
C20_ReleaseBeforeAdmit ==
    (pc \in {"generate", "schedule"}) =>
        \A s \in ServerIds :
            \A tid \in DOMAIN servers[s].running_tasks :
                servers[s].running_tasks[tid][4] > current_time

\* scheduling of a later round starts with the reservation of one server
\* released and another server still holding one that is not due
C20_Witness ==
    /\ pc = "schedule"
    /\ idx = 1
    /\ round_no > 1
    /\ \E s \in ServerIds :
          /\ servers[s].total_data_transferred_kb > 0
          /\ servers[s].running_tasks = <<>>
    /\ \E s \in ServerIds : servers[s].running_tasks # <<>>

\* C21: release_completed_tasks(now) removes exactly the reservations with
\* release time <= now and adds exactly their cpu, storage and memory to the
\* available quantities; every reservation with release time > now stays as
\* it was.
C21_ReleaseExactlyTheDue ==
    [][\A s \in LedgerServers :
          (call'.op = "release") =>
             LET running == servers[s].running_tasks
                 due == {tid \in DOMAIN running : running[tid][4] <= call'.time}
             IN /\ DOMAIN servers'[s].running_tasks = (DOMAIN running) \ due
                /\ \A tid \in (DOMAIN running) \ due :
                      servers'[s].running_tasks[tid] = running[tid]
                /\ \A k \in 1 .. 3 :
                      Avail(servers'[s])[k] =
                          Avail(servers[s])[k] + SumField(running, due, k)]_vars

\* a release that followed no allocate of the same time has returned
\* quantities and has left a reservation that is due later
C21_Witness ==
    /\ call.op = "release"
    /\ call.follows = "none"
    /\ \E s \in LedgerServers :
          /\ \E k \in 1 .. 3 : Avail(servers[s])[k] > call.before[k]
          /\ \E tid \in DOMAIN servers[s].running_tasks :
                servers[s].running_tasks[tid][4] > call.time

\* C22: an allocate called when can_allocate holds returns True, decreases
\* available cpu, storage and memory by exactly the demand, and leaves under
\* the item id a reservation of that demand and the given release time, the
\* other reservations being as before.
C22_AllocateDeductsAndRecords ==
    [][\A s \in LedgerServers :
          (/\ call'.op = "allocate"
           /\ servers[s].available_cpu >= call'.cpu
           /\ servers[s].available_storage >= call'.storage
           /\ servers[s].available_memory >= call'.memory)
          => (/\ call'.ret
              /\ servers'[s].available_cpu = servers[s].available_cpu - call'.cpu
              /\ servers'[s].available_storage
                     = servers[s].available_storage - call'.storage
              /\ servers'[s].available_memory
                     = servers[s].available_memory - call'.memory
              /\ DOMAIN servers'[s].running_tasks
                     = (DOMAIN servers[s].running_tasks) \cup {call'.task_id}
              /\ servers'[s].running_tasks[call'.task_id]
                     = <<call'.cpu, call'.storage, call'.memory, call'.time>>
              /\ \A o \in (DOMAIN servers[s].running_tasks) \ {call'.task_id} :
                    servers'[s].running_tasks[o] = servers[s].running_tasks[o])]_vars

\* an allocate with a positive cpu demand has succeeded for an item id that
\* was still reserved, with a positive cpu demand too: the entry was overwritten
C22_Witness ==
    /\ call.op = "allocate"
    /\ call.ret
    /\ call.cpu > 0
    /\ \E s \in LedgerServers :
          /\ DOMAIN servers[s].running_tasks = {call.task_id}
          /\ servers[s].total_data_transferred_kb = 2 * DataPerDeviceKb
          /\ servers[s].available_cpu + call.cpu < cpu_capacity(s)

\* C24: every reservation the scheduler creates has release time = the clock
\* at the schedule call + the latency of the chosen server, and that is
\* strictly greater than the clock.
C24_ReleaseTimeIsAdmissionPlusLatency ==
    [][(pc = "schedule" /\ Len(assignments') = Len(assignments) + 1) =>
          LET t == tasks[assignments'[Len(assignments')][1]]
              srv == assignments'[Len(assignments')][2]
          IN (srv \in ServerIds) =>
                /\ t.id \in DOMAIN servers'[srv].running_tasks
                /\ servers'[srv].running_tasks[t.id][4]
                       = current_time + latency(srv)
                /\ servers'[srv].running_tasks[t.id][4] > current_time]_vars

\* the scheduler has placed a task on the Regional server at a clock that
\* handovers have moved, with the release time the Regional latency later
C24_Witness ==
    /\ pc = "schedule"
    /\ current_time > round_no - 1
    /\ \E k \in 1 .. Len(assignments) :
          LET srv == assignments[k][2]
              t == tasks[assignments[k][1]]
          IN /\ srv \in ServerIds
             /\ Tier(srv) = "Regional"
             /\ servers[srv].running_tasks[t.id][4] = current_time + RegionalLatency

\* C23: round r submits start_devices + (r-1)*increment tasks, and a run that
\* has ended has carried out exactly
\* ((max_devices - start_devices) / increment) + 1 rounds.
C23_RunsExactlyNRounds ==
    /\ (pc \in {"schedule", "apply", "advance", "done", "crashed"}) =>
           Len(tasks) = StartDevices + ((round_no - 1) * Increment)
    /\ (pc \in {"done", "crashed"}) =>
           (IF pc = "done" THEN round_no ELSE round_no - 1)
               = ((MaxDevices - StartDevices) \div Increment) + 1

\* C25: when a round has gone through its steps, exactly one metrics row of
\* the round has been reported for every server that got a task in the round,
\* and none for a server that got none.
C25_OneRowPerUsedServer ==
    (pc \in {"advance", "done", "crashed"}) =>
        \A s \in ServerIds :
            Cardinality({k \in 1 .. Len(reports) :
                            reports[k].layer = s /\ reports[k].round_no = round_no})
                = (IF AssignedHere(s) # {} THEN 1 ELSE 0)

\* C26: the congestion of a server whose bandwidth is zero is 0.0, from
\* Server.congestion and from calculate_congestion, with no division fault.
C26_CongestionOfZeroBandwidth ==
    (call.op \in {"congestion", "calculate_congestion"} /\ call.args[2] = 0)
        => (call.ret.raises = "none" /\ call.ret.value = 0)

\* C27: get_metrics of a manager with no entities returns avg_pos 0.0 with
\* the manager's ho_count and ho_delay, with no division fault.
C27_GetMetricsOfNoEntities ==
    (call.op = "get_metrics" /\ DOMAIN entities = {})
        => /\ call.ret.raises = "none"
           /\ call.ret.value
                  = [avg_pos |-> 0, ho_count |-> ho_count, ho_delay |-> ho_delay]

\* get_metrics has returned for a manager that has no entities and has
\* counted a handover
C27_Witness ==
    /\ call.op = "get_metrics"
    /\ DOMAIN entities = {}
    /\ ho_count > 0
    /\ call.ret.raises = "none"
    /\ call.ret.value.ho_delay = HandoverLatencyMs

\* C28: the utilization of a resource of capacity zero is 0, from
\* Server.utilization and from the utilization lines of Simulator.run, with
\* no division fault.
C28_UtilizationOfZeroCapacity ==
    /\ (call.op = "utilization") =>
           /\ call.ret.raises = "none"
           /\ \A k \in 1 .. 3 : (call.args[2][k] = 0) => call.ret.value[k] = 0
    /\ (call.op = "run_utilization" /\ call.args[2] = 0) =>
           (call.ret.raises = "none" /\ call.ret.value = 0)

\* C29: a paused waypoint that draws its own position as target goes to move
\* with a zero velocity and an unchanged position, without dividing by zero,
\* and the next call leaves the position unchanged and takes it back to pause.
C29_ZeroDistanceTarget ==
    [][/\ (/\ waypoint.state = "pause"
           /\ waypoint'.state # "pause"
           /\ waypoint'.target = waypoint.pos)
          => (/\ waypoint'.state = "move"
              /\ waypoint'.vel_x = 0
              /\ waypoint'.vel_y = 0
              /\ waypoint'.pos = waypoint.pos)
       /\ (/\ waypoint.state = "move"
           /\ call.before.state = "pause"
           /\ waypoint.target = waypoint.pos)
          => (/\ waypoint'.state = "pause"
              /\ waypoint'.pos = waypoint.pos)]_vars

\* a waypoint is back in pause, where it was, after a call in state move with
\* zero velocity, a positive speed and its own position as target
C29_Witness ==
    /\ call.op = "next_position"
    /\ waypoint.state = "pause"
    /\ call.before.state = "move"
    /\ call.before.target = call.before.pos
    /\ call.before.speed > 0
    /\ call.before.vel_x = 0
    /\ call.before.vel_y = 0
    /\ waypoint.pos = call.before.pos

\* C30: a waypoint starts in pause and is always in pause or in move; a call
\* made in pause leaves the position unchanged; pause -> move happens only in
\* a call that takes the remaining pause time to zero or below, and
\* move -> pause only in a call after which the position is within epsilon
\* of the target.
C30_TwoStateMachine ==
    [][/\ (call.op = "none") => waypoint.state = "pause"
       /\ waypoint.state \in {"pause", "move"}
       /\ waypoint'.state \in {"pause", "move"}
       /\ (waypoint.state = "pause") => waypoint'.pos = waypoint.pos
       /\ (waypoint.state = "pause" /\ waypoint'.state = "move")
             => waypoint.pause_time - Dt <= 0
       /\ (waypoint.state = "move" /\ waypoint'.state = "pause")
             => waypoint'.pos = waypoint'.target]_vars

\* a waypoint that was moving away from where it had paused has reached its
\* target and has gone to pause there
C30_Witness ==
    /\ call.op = "next_position"
    /\ waypoint.state = "pause"
    /\ call.before.state = "move"
    /\ call.before.pos # waypoint.pos
    /\ call.before.pos # call.before.target
    /\ waypoint.pos = waypoint.target
    /\ call.before.vel_x # 0

\* C34: on a single server, after any sequence of allocate and
\* release_completed_tasks calls, an allocate for an id that is still
\* reserved included, each available quantity is the capacity less the sum
\* reserved by the current reservations.
C34_ConservationWithIdReuse ==
    \A s \in LedgerServers :
        LET live == DOMAIN servers[s].running_tasks
        IN /\ servers[s].available_cpu
                 = cpu_capacity(s) - SumField(servers[s].running_tasks, live, 1)
           /\ servers[s].available_storage
                 = storage_capacity(s) - SumField(servers[s].running_tasks, live, 2)
           /\ servers[s].available_memory
                 = memory_capacity(s) - SumField(servers[s].running_tasks, live, 3)

\* C35: for every pair with a server applied by the loop over assignments,
\* the task's execution window starts at the clock, ends the server's latency
\* later, and its end is the release time of the task's reservation on that
\* server.
C35_WindowMatchesReservation ==
    [][(pc = "apply" /\ idx' = idx + 1) =>
          LET t == assignments[idx][1]
              srv == assignments[idx][2]
          IN /\ srv \in ServerIds
             /\ tasks'[t].execution_start_time = current_time
             /\ tasks'[t].execution_end_time
                    = tasks'[t].execution_start_time + latency(srv)
             /\ tasks[t].id \in DOMAIN servers[srv].running_tasks
             /\ tasks'[t].execution_end_time
                    = servers[srv].running_tasks[tasks[t].id][4]]_vars

\* both pairs of a round have been applied, at a clock moved by handovers:
\* the second task's window ends at the release time of its reservation
C35_Witness ==
    /\ pc = "apply"
    /\ idx = 3
    /\ current_time > round_no - 1
    /\ tasks[2].status = "completed"
    /\ tasks[2].execution_end_time > tasks[2].execution_start_time
    /\ \E s \in ServerIds :
          /\ tasks[2].id \in DOMAIN servers[s].running_tasks
          /\ servers[s].running_tasks[tasks[2].id][4] = tasks[2].execution_end_time

\* C36: a reservation is removed only by step 2 and only when the clock has
\* reached its release time; step 2 removes every reservation whose release
\* time the clock has reached, and from then until the clock advances no
\* reservation is due: a reservation goes in the first step 2 at which it is.
C36_ReleasedWhenDue ==
    [][/\ \A s \in ServerIds :
             \A tid \in DOMAIN servers[s].running_tasks :
                 LET rt == servers[s].running_tasks[tid][4]
                 IN /\ (tid \notin DOMAIN servers'[s].running_tasks)
                          => (pc = "release" /\ rt <= current_time)
                    /\ (pc = "release" /\ rt <= current_time)
                          => tid \notin DOMAIN servers'[s].running_tasks
                    /\ (pc \in {"generate", "schedule", "apply", "advance"})
                          => rt > current_time
       /\ current_time' >= current_time]_vars

\* step 2 of the last round has removed a reservation from one server and
\* has kept one that is not due on another
C36_Witness ==
    /\ pc = "generate"
    /\ round_no = TotalRounds
    /\ \E s \in ServerIds :
          /\ servers[s].total_data_transferred_kb > 0
          /\ servers[s].running_tasks = <<>>
    /\ \E s \in ServerIds :
          \E tid \in DOMAIN servers[s].running_tasks :
              servers[s].running_tasks[tid][4] > current_time

\* C37: ho_count and ho_delay never decrease, a time slice adds to them 1 and
\* handover_latency_ms for each entity that changes its attached server, and
\* ho_delay = ho_count * handover_latency_ms in every state.
C37_HandoverCounters ==
    [][LET switched == {i \in EntityIds :
                           entities'[i].attached_server
                               # entities[i].attached_server}
       IN /\ ho_count' >= ho_count
          /\ ho_delay' >= ho_delay
          /\ ho_count' = ho_count + Cardinality(switched)
          /\ ho_delay' = ho_delay + (Cardinality(switched) * HandoverLatencyMs)
          /\ ho_delay = ho_count * HandoverLatencyMs
          /\ ho_delay' = ho_count' * HandoverLatencyMs]_vars

\* a later time slice has counted two handovers on top of an earlier one
C37_Witness ==
    /\ pc = "release"
    /\ round_no > 1
    /\ ho_count >= 3
    /\ ho_delay = ho_count * HandoverLatencyMs
    /\ \E r \in 1 .. Len(reports) : reports[r].ho_count = ho_count - 2

\* C38: every task's entity_id is an index of the manager's entity list, and
\* that list has max_devices entries throughout the run.
C38_EntityIndexValid ==
    /\ DOMAIN entities = 0 .. (MaxDevices - 1)
    /\ \A k \in 1 .. Len(tasks) :
          /\ tasks[k].entity_id >= 0
          /\ tasks[k].entity_id < Cardinality(DOMAIN entities)

\* the last round's last task carries the last index of the entity list
C38_Witness ==
    /\ pc = "schedule"
    /\ round_no = TotalRounds
    /\ Len(tasks) = MaxDevices
    /\ tasks[Len(tasks)].entity_id = Cardinality(DOMAIN entities) - 1

\* C39: a task's status changes only from created to scheduled, from
\* scheduled to completed or from created to failed, and a task that is
\* completed or failed keeps its status and execution window.
C39_LifecycleOrder ==
    [][\A k \in 1 .. Len(tasks) :
          (k <= Len(tasks') /\ tasks'[k].id = tasks[k].id) =>
             /\ (tasks'[k].status # tasks[k].status) =>
                    <<tasks[k].status, tasks'[k].status>>
                        \in {<<"created", "scheduled">>, <<"scheduled", "completed">>,
                             <<"created", "failed">>}
             /\ (tasks[k].status \in {"completed", "failed"}) =>
                    /\ tasks'[k].execution_start_time = tasks[k].execution_start_time
                    /\ tasks'[k].execution_end_time
                           = tasks[k].execution_end_time]_vars

\* C31: a move phase ends: a waypoint in state move has not stepped over its
\* target (the target lies ahead along the velocity), so that its distance
\* to the target keeps falling until the epsilon test returns it to pause.
C31_MoveDoesNotPassTarget ==
    (pc = "waypoint" /\ waypoint.state = "move") =>
        ((waypoint.target[1] - waypoint.pos[1]) * waypoint.vel_x)
            + ((waypoint.target[2] - waypoint.pos[2]) * waypoint.vel_y) >= 0

\* C32: the position of a waypoint that started inside the area is inside
\* the area after every call of next_position.
C32_StaysInsideArea ==
    (pc = "waypoint") =>
        /\ Area.xmin <= waypoint.pos[1]
        /\ waypoint.pos[1] <= Area.xmax
        /\ Area.ymin <= waypoint.pos[2]
        /\ waypoint.pos[2] <= Area.ymax

(***************************************************************************)
(* SpecPasses: two calls of schedule() on the same servers, interleaved at *)
(* the calls they make on the servers.  A step is either the               *)
(* can_allocate calls of one tier's list comprehension with the min over   *)
(* the eligible servers, or one allocate call with the lines up to         *)
(* results.append.                                                         *)
(***************************************************************************)
PassIds == {1, 2}

\* the most tasks given to one call of schedule()
MaxPassTasks == 2

\* the locals of schedule() on entry: i is the position of the for loop in
\* tasks, at the part of the loop body to run next
NewPass(ts) ==
    [tasks |-> ts, i |-> 1, at |-> "Edge", selected |-> None, results |-> <<>>]

\* the tier whose servers are tried after those of tier
NextTier(tier) == IF tier = "Edge" THEN "Regional" ELSE "Cloud"

\* results.append((task, server)) and the for loop's next iteration or the
\* return; allocated is what the allocate call returned, which schedule()
\* does not look at (FALSE if there was no call)
AppendResult(ps, server, allocated) ==
    [ps EXCEPT !.results = Append(@, [task |-> ps.tasks[ps.i].id,
                                      server |-> server,
                                      allocated |-> allocated]),
               !.i = @ + 1,
               !.selected = None,
               !.at = IF ps.i = Len(ps.tasks) THEN "returned" ELSE "Edge"]

InitPasses ==
    /\ pc = "passes"
    /\ \E n \in [PassIds -> 1 .. MaxPassTasks] :
          passes = [p \in PassIds |->
                      NewPass([k \in 1 .. n[p] |->
                                  NewTask(((p - 1) * MaxPassTasks) + k, 0)])]
    /\ servers = [s \in ServerIds |-> NewServer(s)]
    /\ current_time = 0
    /\ round_no = 1
    /\ tasks = <<>>
    /\ assignments = <<>>
    /\ idx = 0
    /\ failed_count = 0
    /\ next_id = 1
    /\ server_pos = [s \in ServerIds |-> ConfigPosition(s)]
    /\ entities = <<>>
    /\ ho_count = 0
    /\ ho_delay = 0
    /\ ho_ret = <<0, 0>>
    /\ reports = <<>>
    /\ call = NoCall
    /\ waypoint = NoWaypoint

\* one tier's list comprehension and, if it is not empty, the min over it
PassEligible(p) ==
    /\ pc = "passes"
    /\ passes[p].at \in {"Edge", "Regional", "Cloud"}
    /\ LET ps == passes[p]
           eligible == Eligible(servers, ps.at, ps.tasks[ps.i])
       IN passes' = [passes EXCEPT ![p] =
              IF eligible # {}
              THEN [ps EXCEPT !.selected = Selected(servers, eligible),
                              !.at = "allocate"]
              ELSE IF ps.at = "Cloud"
                   THEN AppendResult(ps, None, FALSE)
                   ELSE [ps EXCEPT !.at = NextTier(ps.at)]]
    /\ UNCHANGED <<servers, current_time, round_no, pc, tasks, assignments, idx,
                   failed_count, next_id, server_pos, entities, ho_count, ho_delay,
                   ho_ret, reports, call, waypoint>>

\* selected.allocate(...), server = selected, assigned = True and the append
PassAllocate(p) ==
    /\ pc = "passes"
    /\ passes[p].at = "allocate"
    /\ LET ps == passes[p]
           task == ps.tasks[ps.i]
           selected == ps.selected
           release_time == current_time + latency(selected)
           r == allocate(selected, servers[selected], task.id, task.cpu_demand,
                         task.storage_demand, task.memory_demand, release_time)
       IN /\ servers' = [servers EXCEPT ![selected] = r.srv]
          /\ passes' = [passes EXCEPT ![p] = AppendResult(ps, selected, r.ret)]
    /\ UNCHANGED <<current_time, round_no, pc, tasks, assignments, idx,
                   failed_count, next_id, server_pos, entities, ho_count, ho_delay,
                   ho_ret, reports, call, waypoint>>

NextPasses ==
    \/ \E p \in PassIds : PassEligible(p)
    \/ \E p \in PassIds : PassAllocate(p)

SpecPasses == InitPasses /\ [][NextPasses]_vars

\* C33: when two calls of schedule() interleave on the same servers, no
\* available quantity becomes negative, and every pair (task, server) in a
\* result list comes from an allocate call that returned True and has its
\* reservation in that server's running_tasks.
C33_InterleavedPassesSafe ==
    /\ \A s \in ServerIds :
          /\ servers[s].available_cpu >= 0
          /\ servers[s].available_storage >= 0
          /\ servers[s].available_memory >= 0
    /\ \A p \in DOMAIN passes :
          \A k \in 1 .. Len(passes[p].results) :
              LET r == passes[p].results[k]
              IN (r.server # None) =>
                    /\ r.allocated
                    /\ r.task \in DOMAIN servers[r.server].running_tasks

====
